---- MODULE Spec2Model ----
(***************************************************************************)
(* shefmine.py: search_repository and its helpers process_commit_message, *)
(* process_diff and run_flawfinder.                                        *)
(*                                                                         *)
(* Text is a sequence of tokens.  A token is an indivisible run of         *)
(* characters: a word ("strcpy", "md5", "cc"), a punctuation mark (":",    *)
(* ";", "#", "//", "-") or one whitespace character (" ", "\n").  Regular  *)
(* expressions are evaluated token by token, left to right, the way        *)
(* Python's re evaluates them character by character.                      *)
(***************************************************************************)
EXTENDS Integers, Sequences, FiniteSets, TLC

VARIABLES
    repo,       \* the history repo_mining.traverse_commits() yields: commits
                \* [hash, msg, modifications], never written
    ci,         \* the position of the commit being traversed
    mi,         \* the position of the modification analysed next
    pc,         \* "classify": at the head of the loop over the commits,
                \* "files": in the loop over commit.modifications,
                \* "done": search_repository has returned output,
                \* "aborted": an exception has ended the run
    output,     \* the dict output
    hitlist,    \* the global flawfinder.hitlist
    analysed    \* history variable: for every modification analysed so far,
                \* what its matcher was given and what it returned

vars == <<repo, ci, mi, pc, output, hitlist, analysed>>

(* ------------------------------ bounds --------------------------------- *)

MaxCommits == 2
MaxMsgLen == 4
MaxLines == 3

(* ------------------------------- text ---------------------------------- *)

\* str.strip() removes leading and trailing whitespace
Whitespace == {" ", "\n"}

\* the characters of \w: every token that is not punctuation or whitespace
NonWord == Whitespace \cup {":", ";", "#", "//", "-", "(", ")"}

IsWord(t) == t \notin NonWord

\* re.I / str.lower(): the lower-case form of a token
Lower(t) ==
    CASE t = "Cc" -> "cc"
      [] t = "Signed" -> "signed"
      [] t = "Off" -> "off"
      [] t = "By" -> "by"
      [] t = "Injection" -> "injection"
      [] t = ".C" -> ".c"
      [] t = ".PY" -> ".py"
      [] OTHER -> t

RECURSIVE LStrip(_)
LStrip(s) ==
    IF s # <<>> /\ Head(s) \in Whitespace THEN LStrip(Tail(s)) ELSE s

RECURSIVE RStrip(_)
RStrip(s) ==
    IF s # <<>> /\ s[Len(s)] \in Whitespace
    THEN RStrip(SubSeq(s, 1, Len(s) - 1))
    ELSE s

Strip(s) == RStrip(LStrip(s))

(* ---------------------- process_commit_message ------------------------- *)

Keywords == {"acked", "cc", "reported", "reviewed", "signed", "submitted", "tested"}

\* the character class [\s\-_]
Sep == {" ", "\n", "-", "_"}

\* '.*' stops before the next newline: the index one past the end of the line
RECURSIVE EndOfLine(_, _)
EndOfLine(m, i) ==
    IF i > Len(m) \/ m[i] = "\n" THEN i ELSE EndOfLine(m, i + 1)

\* '[\s\-_]*' is greedy
RECURSIVE SkipSep(_, _)
SkipSep(m, j) ==
    IF j <= Len(m) /\ m[j] \in Sep THEN SkipSep(m, j + 1) ELSE j

\* The pattern tried at token i: 0 when it does not match there, else the
\* index one past the end of the match.
\* ':.*' at token c
ColonAt(m, c) ==
    IF c <= Len(m) /\ m[c] = ":" THEN EndOfLine(m, c + 1) ELSE 0

\* '(by|on)?:.*' at token b
ByOnAt(m, b) ==
    IF b <= Len(m) /\ Lower(m[b]) \in {"by", "on"}
    THEN ColonAt(m, b + 1)
    ELSE ColonAt(m, b)

\* '([\s\-_]off)?' after the keyword at token i: the index it leaves off at
OffAt(m, i) ==
    IF /\ Lower(m[i]) = "signed"
       /\ i + 2 <= Len(m)
       /\ m[i + 1] \in Sep
       /\ Lower(m[i + 2]) = "off"
    THEN i + 3
    ELSE i + 1

TrailerEnd(m, i) ==
    IF Lower(m[i]) = "git-svn-id"
    THEN EndOfLine(m, i + 1)
    ELSE IF Lower(m[i]) \in Keywords
    THEN ByOnAt(m, SkipSep(m, OffAt(m, i)))
    ELSE 0

\* re.sub(pattern, '', message): leftmost non-overlapping matches are removed
RECURSIVE Sub(_, _)
Sub(m, i) ==
    IF i > Len(m)
    THEN <<>>
    ELSE IF TrailerEnd(m, i) > 0
    THEN Sub(m, TrailerEnd(m, i))
    ELSE <<m[i]>> \o Sub(m, i + 1)

\* the message with no trailer removed
process_commit_message_keep(message) == Strip(message)

process_commit_message(message) == Strip(Sub(message, 1))

(* ------------------- vulnerability.vulnerability_list ------------------ *)

\* The Catalog: an ordered list of named rules, each a case-insensitive
\* regular expression, here the set of words it finds.  "Security
\* Misconfiguration" and "Broken Access Control" share their trigger.
vulnerability_list ==
    << [name |-> "Injection", regex |-> {"injection"}],
       [name |-> "Security Misconfiguration", regex |-> {"access"}],
       [name |-> "Broken Access Control", regex |-> {"access"}] >>

\* regex.search(text): the index of the leftmost match, 0 for None
RECURSIVE RegexSearchFrom(_, _, _)
RegexSearchFrom(regex, text, i) ==
    IF i > Len(text)
    THEN 0
    ELSE IF Lower(text[i]) \in regex THEN i ELSE RegexSearchFrom(regex, text, i + 1)

RegexSearch(regex, text) == RegexSearchFrom(regex, text, 1)

(* ------------------------- languages.language -------------------------- *)

\* One profile per supported non-C language; extension sets are disjoint
\* from each other and from c_extensions.
language_list ==
    << [extensions |-> {".py"},
        marker |-> "#",
        rule_set |-> << [type |-> "crypto", rules |-> <<"md5">>],
                        [type |-> "exec", rules |-> <<"eval">>] >>],
       [extensions |-> {".rb"},
        marker |-> "#",
        rule_set |-> << [type |-> "exec", rules |-> <<"eval">>],
                        [type |-> "injection", rules |-> <<"eval", "md5">>] >>] >>

\* language.is_not_comment(line): the line does not begin, after its
\* indentation, with the language's comment marker
is_not_comment(language, line) ==
    LET t == LStrip(line)
    IN ~(t # <<>> /\ t[1] = language.marker)

(* ---------------------------- languages.c ------------------------------ *)

c_extensions == {".c", ".cc", ".cpp", ".h"}

\* c_comments.match(text): the text begins with a comment
c_comments_match(text) == text # <<>> /\ text[1] = "//"

\* remove_comment(line): the line without its trailing inline comment
RECURSIVE CommentStart(_, _)
CommentStart(line, i) ==
    IF i > Len(line) \/ line[i] = "//" THEN i ELSE CommentStart(line, i + 1)

remove_comment(line) == RStrip(SubSeq(line, 1, CommentStart(line, 1) - 1))

(* ----------------------------- flawfinder ------------------------------ *)

\* The scanner's ruleset: the risk level of each function name it knows.
\* Level 0 marks a use that the scanner reports as harmless.
RiskLevel(t) ==
    CASE t = "strcpy" -> 4
      [] t = "printf" -> 0
      [] OTHER -> -1

RECURSIVE HitsOfLine(_, _)
HitsOfLine(line, i) ==
    IF i > Len(line)
    THEN <<>>
    ELSE (IF RiskLevel(line[i]) >= 0
          THEN << [name |-> line[i], level |-> RiskLevel(line[i]), context_text |-> line] >>
          ELSE <<>>) \o HitsOfLine(line, i + 1)

RECURSIVE HitsOfBuffer(_, _)
HitsOfBuffer(buffer, i) ==
    IF i > Len(buffer)
    THEN <<>>
    ELSE HitsOfLine(buffer[i], 1) \o HitsOfBuffer(buffer, i + 1)

\* How one invocation of the scanner behaves: it returns the hits of the
\* buffer ("ok"), raises ("raise"), or returns them with one more hit whose
\* context_text is no line of the buffer ("malformed")
ScannerModes == {"ok", "raise", "malformed"}

\* a hit whose context_text is no line of the buffer
MalformedHit == [name |-> "strcpy", level |-> 4, context_text |-> <<"?">>]

\* flawfinder.process_c_file(fp.name, None): the hits it appends to hitlist
process_c_file(buffer, mode) ==
    IF mode = "malformed"
    THEN HitsOfBuffer(buffer, 1) \o <<MalformedHit>>
    ELSE HitsOfBuffer(buffer, 1)

(* --------------------------- run_flawfinder ---------------------------- *)

\* the dict built from the sides that have at least one finding
PartialOutput(found) ==
    [k \in {s \in {"added", "deleted"} : found[s] # <<>>} |-> found[k]]

\* flawfinder.hitlist = []
ResetHitlistKeep(hl) == hl

ResetHitlist(hl) == <<>>

\* linelist: blank lines and comment lines removed, inline comments cut
CLinelist(value) ==
    LET Keep(e) == e[2] # <<>> /\ ~c_comments_match(Strip(e[2]))
        kept == SelectSeq(value, Keep)
    IN [i \in 1..Len(kept) |-> <<kept[i][1], remove_comment(Strip(kept[i][2]))>>]

HasText(linelist, text) == \E i \in 1..Len(linelist) : linelist[i][2] = text

\* (num for num, line in linelist if line == hit.context_text).__next__()
LastNum(linelist, text) ==
    LET i == CHOOSE k \in 1..Len(linelist) :
                 /\ linelist[k][2] = text
                 /\ \A j \in (k + 1)..Len(linelist) : linelist[j][2] # text
    IN linelist[i][1]

FirstNum(linelist, text) ==
    LET i == CHOOSE k \in 1..Len(linelist) :
                 /\ linelist[k][2] = text
                 /\ \A j \in 1..(k - 1) : linelist[j][2] # text
    IN linelist[i][1]

\* (line.strip() for num, line in value if line_num == num).__next__()
RawLineAt(value, line_num) ==
    LET i == CHOOSE k \in 1..Len(value) :
                 /\ value[k][1] = line_num
                 /\ \A j \in 1..(k - 1) : value[j][1] # line_num
    IN Strip(value[i][2])

\* hits that have warning level > 0 and are not a comment
FilteredHitlist(hl) ==
    LET Keep(hit) == hit.level > 0 /\ ~c_comments_match(hit.context_text)
    IN SelectSeq(hl, Keep)

\* The findings of the surviving hits, or the StopIteration of a hit whose
\* context_text is no line of linelist
Reconcile(key, value, pre, linelist, produced, filtered) ==
    IF \A i \in 1..Len(filtered) : HasText(linelist, filtered[i].context_text)
    THEN [side |-> key, value |-> value, pre |-> pre, lines |-> linelist,
          produced |-> produced, hitlist |-> pre \o produced, crashed |-> FALSE,
          findings |-> [i \in 1..Len(filtered) |->
                           [line_num |-> FirstNum(linelist, filtered[i].context_text),
                            line |-> RawLineAt(value,
                                        FirstNum(linelist, filtered[i].context_text)),
                            vulnerability |-> filtered[i].name]]]
    ELSE [side |-> key, value |-> value, pre |-> pre, lines |-> linelist,
          produced |-> produced, hitlist |-> pre \o produced, crashed |-> TRUE,
          findings |-> <<>>]

\* flawfinder.process_c_file on the buffer, which appends to the hit list
Scanned(key, value, pre, linelist, mode, produced) ==
    IF mode = "raise"
    THEN [side |-> key, value |-> value, pre |-> pre, lines |-> linelist,
          produced |-> <<>>, hitlist |-> pre, crashed |-> TRUE, findings |-> <<>>]
    ELSE Reconcile(key, value, pre, linelist, produced, FilteredHitlist(pre \o produced))

\* the lines written to the temporary file
Buffer(linelist) == [i \in 1..Len(linelist) |-> linelist[i][2]]

Written(key, value, pre, linelist, mode) ==
    Scanned(key, value, pre, linelist, mode, process_c_file(Buffer(linelist), mode))

\* One pass of the loop over diff.items(): the scan of one side, with
\* flawfinder.hitlist = hl before it and the scanner behaving as mode
ScanSide(key, value, hl, mode) ==
    Written(key, value, ResetHitlist(hl), CLinelist(value), mode)

BothSides(a, d) ==
    IF d.crashed
    THEN [crashed |-> TRUE, partial |-> <<>>, hitlist |-> d.hitlist, scans |-> <<a, d>>]
    ELSE [crashed |-> FALSE,
          partial |-> PartialOutput([added |-> a.findings, deleted |-> d.findings]),
          hitlist |-> d.hitlist, scans |-> <<a, d>>]

AfterAdded(diff, resp, a) ==
    IF a.crashed
    THEN [crashed |-> TRUE, partial |-> <<>>, hitlist |-> a.hitlist, scans |-> <<a>>]
    ELSE BothSides(a, ScanSide("deleted", diff.deleted, a.hitlist, resp.deleted))

\* run_flawfinder(diff, commit_hash, file), with flawfinder.hitlist = hl on
\* entry and the scanner behaving as resp[side] on each side's buffer
run_flawfinder(diff, hl, resp) ==
    AfterAdded(diff, resp, ScanSide("added", diff.added, hl, resp.added))

(* ----------------------------- process_diff ---------------------------- *)

\* re.compile(fr'\b{rule}\b', re.S).search(line): the rule stands in the
\* line as a word of its own
RuleSearchSubstring(rule, line) == \E i \in 1..Len(line) : line[i] = rule

RuleSearch(rule, line) ==
    \E i \in 1..Len(line) :
        /\ line[i] = rule
        /\ (i = 1 \/ ~IsWord(line[i - 1]))
        /\ (i = Len(line) \/ ~IsWord(line[i + 1]))

\* the rules of one category that match the line, in the category's order
RECURSIVE RulesMatched(_, _, _)
RulesMatched(rules, line, j) ==
    IF j > Len(rules)
    THEN <<>>
    ELSE (IF RuleSearch(rules[j], line) THEN <<rules[j]>> ELSE <<>>)
         \o RulesMatched(rules, line, j + 1)

\* the list 'vulnerability' of one line: the loop over language.rule_set.items()
RECURSIVE Vulnerability(_, _, _)
Vulnerability(rule_set, line, t) ==
    IF t > Len(rule_set)
    THEN <<>>
    ELSE RulesMatched(rule_set[t].rules, line, 1) \o Vulnerability(rule_set, line, t + 1)

\* diff[k] = ((num, line.strip()) for (num, line) in v
\*            if line and language.is_not_comment(line))
DiffLineFilter(language, v) ==
    LET Keep(e) == e[2] # <<>> /\ is_not_comment(language, e[2])
        kept == SelectSeq(v, Keep)
    IN [i \in 1..Len(kept) |-> <<kept[i][1], Strip(kept[i][2])>>]

\* if vulnerability: partial_output[key].append({...})
Finding(num, line, vulnerability) ==
    IF vulnerability # <<>>
    THEN << [line_num |-> num, line |-> Strip(line), vulnerability |-> vulnerability] >>
    ELSE <<>>

\* the findings of one side: the loop over its (num, line) pairs
RECURSIVE SideFindings(_, _, _)
SideFindings(language, value, i) ==
    IF i > Len(value)
    THEN <<>>
    ELSE Finding(value[i][1], value[i][2], Vulnerability(language.rule_set, value[i][2], 1))
         \o SideFindings(language, value, i + 1)

\* The loop over lang.language_list from language k on: diff is rebound to
\* its filtered form by every language that supports the extension, and
\* found collects the findings of both sides.
RECURSIVE ProcessDiffFrom(_, _, _, _, _)
Matched(d, file_extension, k, found, lines) ==
    ProcessDiffFrom(d, file_extension, k + 1,
                    [added |-> found.added \o SideFindings(language_list[k], d.added, 1),
                     deleted |-> found.deleted \o SideFindings(language_list[k], d.deleted, 1)],
                    Append(lines, d))

ProcessDiffFrom(diff, file_extension, k, found, lines) ==
    IF k > Len(language_list)
    THEN [partial |-> PartialOutput(found), lines |-> lines]
    ELSE IF Lower(file_extension) \in language_list[k].extensions
    THEN Matched([added |-> DiffLineFilter(language_list[k], diff.added),
                  deleted |-> DiffLineFilter(language_list[k], diff.deleted)],
                 file_extension, k, found, lines)
    ELSE ProcessDiffFrom(diff, file_extension, k + 1, found, lines)

\* process_diff(diff, file_extension): partial is what it returns, lines
\* the filtered diff each supporting language handed to the rule matching
process_diff(diff, file_extension) ==
    ProcessDiffFrom(diff, file_extension, 1, [added |-> <<>>, deleted |-> <<>>], <<>>)

(* -------------------------- search_repository -------------------------- *)

\* output is a dict in insertion order: a sequence of [key, value], where a
\* value is a function on the field names it has

HasKey(out, h) == \E i \in 1..Len(out) : out[i].key = h

KeyIndex(out, h) == CHOOSE i \in 1..Len(out) : out[i].key = h

Value(out, h) == out[KeyIndex(out, h)].value

\* if regex_match is not None and commit.hash not in output: ...
Matching(out, commit, vulnerability, commit_message, regex_match) ==
    IF regex_match # 0 /\ ~HasKey(out, commit.hash)
    THEN Append(out, [key |-> commit.hash,
                      value |-> [message |-> commit.msg,
                                 vulnerabilities |->
                                     << [name |-> vulnerability.name,
                                         match |-> commit_message[regex_match]] >>]])
    ELSE out

Searched(out, commit, vulnerability, commit_message) ==
    Matching(out, commit, vulnerability, commit_message,
             RegexSearch(vulnerability.regex, commit_message))

\* The body of the loop over vuln.vulnerability_list for one rule
MatchStep(out, commit, vulnerability) ==
    Searched(out, commit, vulnerability, process_commit_message(commit.msg))

RECURSIVE ClassifyFrom(_, _, _)
ClassifyFrom(out, commit, k) ==
    IF k > Len(vulnerability_list)
    THEN out
    ELSE ClassifyFrom(MatchStep(out, commit, vulnerability_list[k]), commit, k + 1)

\* os.path.splitext(file)[1]
ExtTokens == {".c", ".C", ".h", ".py", ".PY", ".rb", ".txt"}

splitext(file) ==
    IF Len(file) > 1 /\ file[Len(file)] \in ExtTokens THEN file[Len(file)] ELSE ""

\* modification.old_path if change_type.name is 'DELETE' else new_path
\* ('is' on the interned name of the enum member compares as '==' does)
FileOf(modification) ==
    IF modification.change_type = "DELETE"
    THEN modification.old_path
    ELSE modification.new_path

\* if 'files_changed' not in output[commit.hash]: ... = []
WithFilesChanged(value) ==
    IF "files_changed" \in DOMAIN value THEN value ELSE value @@ ("files_changed" :> <<>>)

\* output[commit.hash]['files_changed'].append({'file': file, **partial_output})
AppendFile(out, i, file, partial_output) ==
    [out EXCEPT ![i].value =
        [WithFilesChanged(@) EXCEPT
            !["files_changed"] = Append(@, ("file" :> file) @@ partial_output)]]

\* if partial_output: ...
AddFileAlways(out, h, file, partial_output) ==
    AppendFile(out, KeyIndex(out, h), file, partial_output)

AddFile(out, h, file, partial_output) ==
    IF DOMAIN partial_output # {}
    THEN AppendFile(out, KeyIndex(out, h), file, partial_output)
    ELSE out

\* The end of a matched commit's body.  The removal of a commit without
\* 'files_changed' is commented out in the source: nothing is removed.
RemoveIfNoFilesPop(out, h) ==
    LET Keep(e) == ~(e.key = h /\ "files_changed" \notin DOMAIN e.value)
    IN SelectSeq(out, Keep)

RemoveIfNoFiles(out, h) == out

FromFlawfinder(r) ==
    [matcher |-> "flawfinder", crashed |-> r.crashed, partial |-> r.partial,
     hitlist |-> r.hitlist, scans |-> r.scans, lines |-> <<>>]

FromGrep(r, hl) ==
    [matcher |-> "grep", crashed |-> FALSE, partial |-> r.partial,
     hitlist |-> hl, scans |-> <<>>, lines |-> r.lines]

\* The analysis of one modification: dispatch on the extension
Analyse(modification, hl, resp) ==
    IF Lower(splitext(FileOf(modification))) \in c_extensions
    THEN FromFlawfinder(run_flawfinder(modification.diff, hl, resp))
    ELSE FromGrep(process_diff(modification.diff, splitext(FileOf(modification))), hl)

(* ------------------------------- actions ------------------------------- *)

\* 'if commit.hash in output:' after the loop over the Catalog
Classified(commit, out) ==
    IF HasKey(out, commit.hash)
    THEN IF commit.modifications # <<>>
         THEN /\ output' = out
              /\ pc' = "files"
              /\ ci' = ci
         ELSE /\ output' = RemoveIfNoFiles(out, commit.hash)
              /\ pc' = "classify"
              /\ ci' = ci + 1
    ELSE /\ output' = out
         /\ pc' = "classify"
         /\ ci' = ci + 1

\* One commit of traverse_commits(): the loop over the Catalog, and the
\* test that opens the loop over the commit's modifications
Classify ==
    /\ pc = "classify"
    /\ ci <= Len(repo)
    /\ Classified(repo[ci], ClassifyFrom(output, repo[ci], 1))
    /\ mi' = 1
    /\ UNCHANGED <<repo, hitlist, analysed>>

\* The rest of the loop body once the modification is analysed with result r
Analysed(commit, modification, file, r) ==
    /\ hitlist' = r.hitlist
    /\ analysed' = Append(analysed,
                       [hash |-> commit.hash, mod |-> mi, file |-> file,
                        diff |-> modification.diff,
                        matcher |-> r.matcher, crashed |-> r.crashed,
                        partial |-> r.partial, scans |-> r.scans, lines |-> r.lines])
    /\ IF r.crashed
       THEN /\ pc' = "aborted"
            /\ UNCHANGED <<output, ci, mi>>
       ELSE IF mi = Len(commit.modifications)
       THEN /\ output' = RemoveIfNoFiles(AddFile(output, commit.hash, file, r.partial),
                                         commit.hash)
            /\ pc' = "classify"
            /\ ci' = ci + 1
            /\ mi' = 1
       ELSE /\ output' = AddFile(output, commit.hash, file, r.partial)
            /\ pc' = "files"
            /\ ci' = ci
            /\ mi' = mi + 1

\* One modification of a matched commit.  An exception raised in
\* run_flawfinder is caught nowhere: the run ends without a result.
ProcessModification ==
    /\ pc = "files"
    /\ \E resp \in [added : ScannerModes, deleted : ScannerModes] :
           Analysed(repo[ci], repo[ci].modifications[mi],
                    FileOf(repo[ci].modifications[mi]),
                    Analyse(repo[ci].modifications[mi], hitlist, resp))
    /\ UNCHANGED repo

\* return output
Return ==
    /\ pc = "classify"
    /\ ci > Len(repo)
    /\ pc' = "done"
    /\ UNCHANGED <<repo, ci, mi, output, hitlist, analysed>>

Next == Classify \/ ProcessModification \/ Return

(* ------------------------------- inputs -------------------------------- *)

\* commit hashes, one per position of the history
Hashes == <<"a1", "b2", "c3", "d4">>

\* the lines of one side of a diff with their line numbers, which increase
Numbered(lines) == [i \in 1..Len(lines) |-> <<2 * i + 1, lines[i]>>]

NoPath == <<>>

Modify(path, added, deleted) ==
    [change_type |-> "MODIFY", old_path |-> path, new_path |-> path,
     diff |-> [added |-> Numbered(added), deleted |-> Numbered(deleted)]]

Delete(path, deleted) ==
    [change_type |-> "DELETE", old_path |-> path, new_path |-> NoPath,
     diff |-> [added |-> <<>>, deleted |-> Numbered(deleted)]]

\* sequences of at most n elements of S
SeqUpTo(S, n) == UNION {[1..k -> S] : k \in 0..n}

\* the state before the traversal of history r
Start(r) ==
    /\ repo = r
    /\ ci = 1
    /\ mi = 1
    /\ pc = "classify"
    /\ output = <<>>
    /\ hitlist = <<>>
    /\ analysed = <<>>

(* Histories of several commits *)

SampleMessages ==
    { <<"refactor">>,
      <<"fix", " ", "injection">>,
      <<"access", " ", "Injection">>,
      <<"fix", "\n", "Signed", "-", "off", "-", "by", ":", " ", "injection">> }

ParserC ==
    Modify(<<"parser", ".c">>,
           << <<" ", "strcpy">>, <<"strcpy", " ", "//", "x">> >>,
           << <<"strcpy">> >>)

OldH == Delete(<<"old", ".C">>, << <<"printf">>, <<"//", "strcpy">> >>)

LibC == Modify(<<"lib", ".c">>, << <<"x">> >>, << <<"x", " ", "strcpy">> >>)

UtilPy == Modify(<<"util", ".PY">>, << <<"md5", " ", "x">> >>, << <<"#", "eval">> >>)

NotesTxt == Modify(<<"notes", ".txt">>, << <<"md5">> >>, <<>>)

Makefile == Modify(<<"Makefile">>, << <<"eval">> >>, << <<"md5">> >>)

SampleModLists ==
    { <<>>,
      <<ParserC>>,
      <<NotesTxt, UtilPy>>,
      <<OldH, Makefile>>,
      <<LibC, NotesTxt, ParserC>> }

SampleCommits == [msg : SampleMessages, modifications : SampleModLists]

History(bodies) ==
    [i \in 1..Len(bodies) |->
        [hash |-> Hashes[i], msg |-> bodies[i].msg,
         modifications |-> bodies[i].modifications]]

Init == \E bodies \in SeqUpTo(SampleCommits, MaxCommits) : Start(History(bodies))

Spec == Init /\ [][Next]_vars

(* Histories whose last commit has any message of at most MaxMsgLen tokens *)

MsgTokens == {"injection", "access", "Cc", "by", ":", " ", "\n", "git-svn-id"}

FirstCommits ==
    { [msg |-> <<"access">>, modifications |-> <<ParserC>>],
      [msg |-> <<"refactor">>, modifications |-> <<UtilPy>>] }

InitMsg ==
    \E first \in FirstCommits, msg \in SeqUpTo(MsgTokens, MaxMsgLen) :
        Start(History(<<first, [msg |-> msg, modifications |-> <<NotesTxt, UtilPy>>]>>))

SpecMsg == InitMsg /\ [][Next]_vars

(* Histories of one matched commit that changes one file, with any diff of *)
(* at most MaxLines changed lines                                          *)

CLines ==
    { <<>>, <<" ">>, <<"//", "strcpy">>, <<" ", "strcpy">>,
      <<"strcpy", " ", "//", "x">>, <<"printf">> }

GLines ==
    { <<>>, <<" ">>, <<" ", "#", "md5">>, <<"md5", "x">>,
      <<" ", "md5", ";", "eval">>, <<"eval">> }

DiffPaths == {<<"parser", ".c">>, <<"util", ".PY">>, <<"app", ".rb">>, <<"notes", ".txt">>}

LinesFor(path) == IF Lower(splitext(path)) \in c_extensions THEN CLines ELSE GLines

InitDiff ==
    \E path \in DiffPaths, a \in 0..MaxLines :
        \E added \in [1..a -> LinesFor(path)],
           deleted \in SeqUpTo(LinesFor(path), MaxLines - a) :
            Start(History(<< [msg |-> <<"fix", " ", "injection">>,
                              modifications |-> <<Modify(path, added, deleted)>>] >>))

SpecDiff == InitDiff /\ [][Next]_vars

(* ------------------------- notions of the claims ----------------------- *)

\* commit k of the history has been traversed to its end
Traversed(k) == k < ci

\* commit k has been classified
IsClassified(k) == k < ci \/ (k = ci /\ pc \in {"files", "aborted"})

\* some rule of the Catalog matches the normalized message
MessageMatches(msg) ==
    \E r \in 1..Len(vulnerability_list) :
        RegexSearch(vulnerability_list[r].regex, process_commit_message(msg)) # 0

\* the entries of the log that belong to commit h
LogOf(h) ==
    LET Mine(e) == e.hash = h
    IN SelectSeq(analysed, Mine)

\* the findings a partial output has on a side
FindingsOn(partial, side) == IF side \in DOMAIN partial THEN partial[side] ELSE <<>>

\* the list 'files_changed' of an output value, empty when the key is absent
FilesChanged(value) ==
    IF "files_changed" \in DOMAIN value THEN value["files_changed"] ELSE <<>>

(* ---------------------------------- C1 --------------------------------- *)

RECURSIVE ExpectedVulnerabilities(_, _)
ExpectedVulnerabilities(text, r) ==
    IF r > Len(vulnerability_list)
    THEN <<>>
    ELSE (IF RegexSearch(vulnerability_list[r].regex, text) # 0
          THEN << [name |-> vulnerability_list[r].name,
                   match |-> text[RegexSearch(vulnerability_list[r].regex, text)]] >>
          ELSE <<>>) \o ExpectedVulnerabilities(text, r + 1)

\* C1: every commit of the output lists one {name, match} entry for every
\* Catalog rule that matches its normalized message, in Catalog order.
C1_AllMatchesRecorded ==
    \A i \in 1..Len(output) :
        output[i].value.vulnerabilities =
            ExpectedVulnerabilities(process_commit_message(output[i].value.message), 1)

(* ---------------------------------- C2 --------------------------------- *)

AllTriggers == UNION {vulnerability_list[r].regex : r \in 1..Len(vulnerability_list)}

IsTrigger(m, i) == Lower(m[i]) \in AllTriggers

\* the first token of the line that token i stands on
LineStart(m, i) ==
    CHOOSE s \in 1..i :
        /\ s = 1 \/ m[s - 1] = "\n"
        /\ \A j \in s..i : m[j] # "\n"

\* the line that starts at token s opens with a migration marker or with an
\* attribution trailer: keyword, separators, an optional by/on, a colon
TrailerLine(m, s) ==
    \/ m[s] = "git-svn-id"
    \/ /\ Lower(m[s]) \in Keywords
       /\ \E c \in (s + 1)..Len(m) :
              /\ m[c] = ":"
              /\ \A j \in (s + 1)..(c - 1) :
                     \/ m[j] \in {" ", "-", "_"}
                     \/ j = c - 1 /\ Lower(m[j]) \in {"by", "on"}

\* the message has trigger text, all of it on trailer lines
TriggersOnlyInTrailers(m) ==
    /\ \E i \in 1..Len(m) : IsTrigger(m, i)
    /\ \A i \in 1..Len(m) : IsTrigger(m, i) => TrailerLine(m, LineStart(m, i))

\* C2: a commit hash is a key of the output iff the commit has been
\* classified and a Catalog rule matches its normalized message; a commit
\* whose trigger text all lies on trailer lines is absent; no key occurs
\* twice; only commits of the output have modifications analysed.
C2_KeyIffMessageMatches ==
    /\ \A k \in 1..Len(repo) :
           HasKey(output, repo[k].hash) <=> (IsClassified(k) /\ MessageMatches(repo[k].msg))
    /\ \A k \in 1..Len(repo) :
           TriggersOnlyInTrailers(repo[k].msg) => ~HasKey(output, repo[k].hash)
    /\ \A i, j \in 1..Len(output) : output[i].key = output[j].key => i = j
    /\ \A n \in 1..Len(analysed) : HasKey(output, analysed[n].hash)

\* a finished traversal that kept one commit and left out a later one whose
\* trigger text stands in a trailer
C2_Witness ==
    /\ pc = "done"
    /\ \E k, l \in 1..Len(repo) :
           /\ k < l
           /\ HasKey(output, repo[k].hash)
           /\ TriggersOnlyInTrailers(repo[l].msg)
           /\ ~HasKey(output, repo[l].hash)
           /\ repo[l].modifications # <<>>

(* ---------------------------------- C3 --------------------------------- *)

NoFileReport(h) == \A n \in 1..Len(analysed) :
    analysed[n].hash = h => DOMAIN analysed[n].partial = {}

\* C3: a traversed commit whose message matched and none of whose files
\* produced a finding is a key of the output, in every later state too.
C3_ClassifiedCommitKept ==
    \A k \in 1..Len(repo) :
        (Traversed(k) /\ MessageMatches(repo[k].msg) /\ NoFileReport(repo[k].hash))
            => HasKey(output, repo[k].hash)

\* the traversal returned an output holding a matched commit whose files,
\* all analysed, produced no finding
C3_Witness ==
    /\ pc = "done"
    /\ \E k \in 1..Len(repo) :
           /\ MessageMatches(repo[k].msg)
           /\ Len(LogOf(repo[k].hash)) = Len(repo[k].modifications)
           /\ repo[k].modifications # <<>>
           /\ NoFileReport(repo[k].hash)
           /\ HasKey(output, repo[k].hash)

(* ---------------------------------- C4 --------------------------------- *)

\* the scans of run_flawfinder that ended without an exception
GoodScans ==
    {s \in UNION {{analysed[n].scans[j] : j \in 1..Len(analysed[n].scans)} :
                     n \in 1..Len(analysed)} : ~s.crashed}

\* the finding's line_num is that of the first filtered line whose text is
\* the hit's
BoundToFirst(s, hit, finding) ==
    \E p \in 1..Len(s.lines) :
        /\ s.lines[p][2] = hit.context_text
        /\ \A q \in 1..(p - 1) : s.lines[q][2] # hit.context_text
        /\ finding.line_num = s.lines[p][1]

Filterings ==
    {<<s.value, s.lines>> :
        s \in UNION {{analysed[n].scans[j] : j \in 1..Len(analysed[n].scans)} :
                        n \in 1..Len(analysed)}}
    \cup
    UNION {{<<analysed[n].diff[side], analysed[n].lines[1][side]>> :
               side \in {"added", "deleted"}} :
              n \in {x \in 1..Len(analysed) : analysed[x].lines # <<>>}}

\* f maps the positions of the filtered side, in order, to raw positions
\* of the same line number
IsSubSequence(raw, filtered) ==
    \E f \in [1..Len(filtered) -> 1..Len(raw)] :
        /\ \A i, j \in 1..Len(filtered) : i < j => f[i] < f[j]
        /\ \A i \in 1..Len(filtered) :
               /\ filtered[i][1] = raw[f[i]][1]
               /\ Strip(raw[f[i]][2]) # <<>>
               /\ Strip(raw[f[i]][2])[1] \notin {"#", "//"}

\* C5: on each side, in process_diff and in run_flawfinder, the lines handed
\* to matching hold no line whose trimmed text is empty and no full-line
\* comment, and keep their diff line numbers and their order.
C5_NoBlankNoCommentLine ==
    \A pair \in Filterings :
        /\ \A i \in 1..Len(pair[2]) : pair[2][i][2] # <<>>
        /\ IsSubSequence(pair[1], pair[2])

(* ---------------------------------- C6 --------------------------------- *)

\* the rule stands in the line between two word boundaries
OccursAsWord(rule, line) ==
    \E i \in 1..Len(line) :
        /\ line[i] = rule
        /\ i > 1 => line[i - 1] \in NonWord
        /\ i < Len(line) => line[i + 1] \in NonWord

\* the rules of a rule set, one per (category, rule) pair, in its order
RECURSIVE RulePairs(_, _)
RulePairs(rule_set, t) ==
    IF t > Len(rule_set) THEN <<>> ELSE rule_set[t].rules \o RulePairs(rule_set, t + 1)

MatchingRules(language, line) ==
    LET Occurs(rule) == OccursAsWord(rule, line)
    IN SelectSeq(RulePairs(language.rule_set, 1), Occurs)

\* one finding for each filtered line, in order, that some rule occurs in
RECURSIVE ExpectedFindings(_, _, _)
ExpectedFindings(language, filtered, i) ==
    IF i > Len(filtered)
    THEN <<>>
    ELSE (IF MatchingRules(language, filtered[i][2]) # <<>>
          THEN << [line_num |-> filtered[i][1],
                   line |-> filtered[i][2],
                   vulnerability |-> MatchingRules(language, filtered[i][2])] >>
          ELSE <<>>) \o ExpectedFindings(language, filtered, i + 1)

LanguageOf(file) ==
    language_list[CHOOSE k \in 1..Len(language_list) :
                      Lower(splitext(file)) \in language_list[k].extensions]

\* the files process_diff analysed with a Language Profile
GrepEntries == {n \in 1..Len(analysed) : analysed[n].lines # <<>>}

\* C6: in process_diff, the findings of a side are, in order, one finding for
\* each filtered line in which a rule of the language occurs as a whole
\* word, with the line's number and exactly the matching rules in
\* rule-set order.
C6_FindingIffWholeWord ==
    \A n \in GrepEntries : \A side \in {"added", "deleted"} :
        FindingsOn(analysed[n].partial, side) =
            ExpectedFindings(LanguageOf(analysed[n].file), analysed[n].lines[1][side], 1)

\* a file one of whose lines holds a rule only inside a longer identifier
\* and yields no finding, while another line yields a finding with two rules
C6_Witness ==
    \E n \in GrepEntries :
        /\ analysed[n].diff.added = << <<3, <<"md5", "x">>>>, <<5, <<" ", "md5", ";", "eval">>>> >>
        /\ Len(FindingsOn(analysed[n].partial, "added")) = 1
        /\ FindingsOn(analysed[n].partial, "added")[1].line_num = 5
        /\ Len(FindingsOn(analysed[n].partial, "added")[1].vulnerability) >= 2

(* ---------------------------------- C7 --------------------------------- *)

\* C7: every value of the output of a traversed commit has the three fields
\* message, vulnerabilities and files_changed.
C7_FilesChangedPresent ==
    \A k \in 1..Len(repo) :
        (Traversed(k) /\ HasKey(output, repo[k].hash))
            => DOMAIN Value(output, repo[k].hash)
                   = {"message", "vulnerabilities", "files_changed"}

(* ---------------------------------- C8 --------------------------------- *)

\* the file reports of the entries of a log, in order
RECURSIVE Reports(_, _)
Reports(log, n) ==
    IF n > Len(log)
    THEN <<>>
    ELSE (IF DOMAIN log[n].partial # {}
          THEN << ("file" :> log[n].file) @@ log[n].partial >>
          ELSE <<>>) \o Reports(log, n + 1)

Supported(file) ==
    \/ Lower(splitext(file)) \in c_extensions
    \/ \E k \in 1..Len(language_list) :
           Lower(splitext(file)) \in language_list[k].extensions

CommitOf(h) == repo[CHOOSE k \in 1..Len(repo) : repo[k].hash = h]

\* C8: files_changed of a commit lists, in modification order, the files
\* whose matcher, chosen by the lower-cased extension, returned a finding;
\* a file of an unsupported extension yields none, is not listed and ends
\* neither the loop over the files nor the traversal.
C8_FilesChangedAreFilesWithFindings ==
    /\ \A i \in 1..Len(output) :
           FilesChanged(output[i].value) = Reports(LogOf(output[i].key), 1)
    /\ \A k \in 1..Len(repo) :
           LET log == LogOf(repo[k].hash)
           IN /\ \A n \in 1..Len(log) :
                     /\ log[n].mod = n
                     /\ log[n].file = FileOf(repo[k].modifications[n])
                     /\ log[n].matcher = "flawfinder"
                            <=> Lower(splitext(log[n].file)) \in c_extensions
                     /\ ~Supported(log[n].file) =>
                            DOMAIN log[n].partial = {} /\ ~log[n].crashed
              /\ (Traversed(k) /\ HasKey(output, repo[k].hash))
                     => Len(log) = Len(repo[k].modifications)
    /\ pc = "aborted" => Supported(analysed[Len(analysed)].file)

\* a returned output with a commit of three files: the second, of an
\* unsupported extension, is not listed, the first and the third are
C8_Witness ==
    /\ pc = "done"
    /\ \E i \in 1..Len(output) :
           /\ Len(CommitOf(output[i].key).modifications) = 3
           /\ ~Supported(FileOf(CommitOf(output[i].key).modifications[2]))
           /\ Len(FilesChanged(output[i].value)) = 2
           /\ FilesChanged(output[i].value)[2].file
                  = FileOf(CommitOf(output[i].key).modifications[3])
    /\ \E i \in 1..Len(output) :
           /\ Len(CommitOf(output[i].key).modifications) = 2
           /\ Len(FilesChanged(output[i].value)) = 1
           /\ Lower(splitext(FilesChanged(output[i].value)[1].file)) = ".py"

(* ---------------------------------- C9 --------------------------------- *)

\* C9: a failure of the scanner on one file's buffer, or a hit that matches
\* no filtered line, does not end the run.
C9_ScannerFailureIsolated == pc # "aborted"

(* ---------------------------------- C10 -------------------------------- *)

AllScans ==
    UNION {{[n |-> n, j |-> j] : j \in 1..Len(analysed[n].scans)} : n \in 1..Len(analysed)}

ScanAt(x) == analysed[x.n].scans[x.j]

\* C10: every scan starts from an empty hit list and a buffer written from
\* its own side of its own file, and its findings are those of the hits the
\* scanner produced in that invocation.
C10_FindingsFromOwnScan ==
    \A x \in AllScans :
        /\ ScanAt(x).pre = <<>>
        /\ ScanAt(x).value = analysed[x.n].diff[ScanAt(x).side]
        /\ ScanAt(x).lines = CLinelist(analysed[x.n].diff[ScanAt(x).side])
        /\ ScanAt(x).hitlist = ScanAt(x).produced
        /\ ~ScanAt(x).crashed =>
               /\ Len(ScanAt(x).findings) = Len(FilteredHitlist(ScanAt(x).produced))
               /\ \A i \in 1..Len(ScanAt(x).findings) :
                      /\ ScanAt(x).findings[i].vulnerability
                             = FilteredHitlist(ScanAt(x).produced)[i].name
                      /\ HasText(ScanAt(x).lines,
                                 FilteredHitlist(ScanAt(x).produced)[i].context_text)

\* a scan with hits that follows, in another commit, a scan that left hits
C10_Witness ==
    \E x, y \in AllScans :
        /\ x.n < y.n
        /\ analysed[x.n].hash # analysed[y.n].hash
        /\ ScanAt(x).side = "deleted"
        /\ ScanAt(x).produced # <<>>
        /\ ScanAt(y).side = "added"
        /\ ~ScanAt(y).crashed
        /\ ScanAt(y).findings # <<>>

====
